---- MODULE Spec2Model ----
(***************************************************************************)
(* Model of the image container Img<T, N> of                               *)
(* frontend/Interfaces/buddy/DIP/ImageContainer.h, a class derived from    *)
(* the buffer descriptor MemRef<T, N>.                                     *)
(*                                                                         *)
(* Memory is modelled explicitly.  `ext` is the heap of size_t arrays      *)
(* (the arrays `_size` points to) and `mem` the heap of element arrays     *)
(* (the arrays `allocated`/`aligned`/`data` point to); an address is the   *)
(* index of the array in its heap.  C indices are 0-based, the sequences   *)
(* here 1-based: C index i is index i + 1 of the model.                    *)
(***************************************************************************)
EXTENDS Integers, Sequences, FiniteSets, TLC

VARIABLES img, ext, mem, freed, fault, lastOp, ret, nOps

vars == <<img, ext, mem, freed, fault, lastOp, ret, nOps>>

(* ---------------------------------------------------------------- bounds *)

\* Largest extent a caller passes along one dimension.
MaxExtent == 1
\* Largest word found in uninitialised size_t storage.
MaxGarbage == 1
\* Number of operations one run of the program performs.
MaxOps == 3

(* ------------------------------------------------------------ the program *)

\* Template rank the container is instantiated with: Img<float, 2>.
N == 2
\* nullptr.
Null == 0
\* An address that is no array of the program: the value of a pointer
\* member that no constructor initialised may be this or Null.
Wild == -1
\* The content of an element nobody has written yet.
Indet == -1
\* The values the single-element write stores; none is a pixel of the fill.
Marks == {0}

Handles == {"a", "b"}

Extents == 0..MaxExtent
\* The dimensionalities callers pass: one for each case the code tells
\* apart, dims <= 2 and dims > 2.
NDims == {2, 3}
\* Candidate contents of uninitialised size_t storage: every word of the
\* storage one call reads holds the same pattern w \in 0..MaxGarbage.
Words == {[i \in 1..3 |-> w] : w \in 0..MaxGarbage}
\* Candidate values of the two pointer members no constructor initialises.
\* _size is compared with nullptr, so both outcomes are kept; data is only
\* ever dereferenced, where every value it may hold behaves as Wild does.
Uninit == [_size : {Null, Wild}, data : {Wild}]

\* The shapes callers pass to create(ndims, sizes, type): the non-empty
\* 2-dimensional shapes, and the higher-dimensional shapes whose leading
\* extents are 1.
Shapes ==
    {<<r, c>> : r \in 1..MaxExtent, c \in 1..MaxExtent}
    \cup UNION {{[i \in 1..n |-> IF i = n - 1 THEN c ELSE IF i = n THEN k ELSE 1]
                    : c \in 1..MaxExtent, k \in 1..MaxExtent} : n \in NDims \ {2}}

RECURSIVE Prod(_, _)
\* Product of the first n entries of the sequence s.
Prod(s, n) == IF n = 0 THEN 1 ELSE s[n] * Prod(s, n - 1)

Min(S) == CHOOSE x \in S : \A y \in S : x <= y

(* ------------------------------------------------------------ the object *)

\* MemRef<T, N>::MemRef(): no storage, size 0, sizes and strides zero.
MemRefDefault ==
    [allocated |-> Null, aligned |-> Null, size |-> 0,
     sizes |-> [i \in 1..N |-> 0], strides |-> [i \in 1..N |-> 0]]

\* A slot that holds no object (before construction, after destruction).
NoObject(s) ==
    [st |-> s, flags |-> 0, dims |-> 0, rows |-> 0, cols |-> 0,
     _size |-> Null, data |-> Null,
     allocated |-> Null, aligned |-> Null, size |-> 0,
     sizes |-> [i \in 1..N |-> 0], strides |-> [i \in 1..N |-> 0]]

\* The member initialisers of the Img constructors over the MemRef() base;
\* _size and data have no initialiser and hold the indeterminate u.
ImgInit(fl, d, r, c, u) ==
    [st |-> "live", flags |-> fl, dims |-> d, rows |-> r, cols |-> c,
     _size |-> u._size, data |-> u.data,
     allocated |-> MemRefDefault.allocated, aligned |-> MemRefDefault.aligned,
     size |-> MemRefDefault.size,
     sizes |-> MemRefDefault.sizes, strides |-> MemRefDefault.strides]

(* ---------------------------------------------------------------- memory *)

\* p[i] is an entry of a size_t array of the program.
ExtOk(S, p, i) == p \in 1..Len(S.ext) /\ i \in 1..Len(S.ext[p])
\* The value read from p[i]; g[i] when the read is outside every array.
ExtAt(S, p, i, g) == IF ExtOk(S, p, i) THEN S.ext[p][i] ELSE g[i]

\* p[k] is an element of an element array of the program.
MemOk(S, p, k) == p \in 1..Len(S.mem) /\ k \in 1..Len(S.mem[p])
\* The value read from p[k]; indeterminate when outside every array.
MemAt(S, p, k) == IF MemOk(S, p, k) THEN S.mem[p][k] ELSE Indet

\* Img::total().
total(S, h, g) ==
    LET I == S.img[h] IN
    IF I.dims <= 2 THEN I.rows * I.cols
    ELSE Prod([i \in 1..I.dims |-> ExtAt(S, I._size, i, g)], I.dims)

\* total() reads outside the array _size points to.
totalFault(S, h) ==
    LET I == S.img[h] IN
    I.dims > 2 /\ \E i \in 1..I.dims : ~ExtOk(S, I._size, i)

\* Img::channels().
channels(S, h) == IF S.img[h].dims <= 2 THEN 1 ELSE 3

(* ------------------------------------------------------------ operations *)

\* The program state the operations transform.
Cur == [img |-> img, ext |-> ext, mem |-> mem, fault |-> FALSE]

\* Img::Img().
Img_default(S, t, u) ==
    [S EXCEPT !.img[t] = ImgInit(0, 0, 0, 0, u)]

\* Img::create(int ndims, const int *sizes, int _type).  g is the content of
\* the uninitialised storage the call reads.
create_ndims_sizes(S, h, ndims, sizes, g) ==
    LET I == S.img[h]
        p == I._size
        enter == ndims = I.dims \/ (ndims = 1 /\ ndims <= 2)
        ret1 == I.dims = 1 /\ (ndims = 1 /\ sizes[1] = ExtAt(S, p, 1, g))
        ret2 == ndims = 2 /\ I.rows = sizes[1] /\ I.cols = sizes[2]
        \* the indices at which the comparison loop would break
        mism == {i \in 1..ndims : sizes[i] # ExtAt(S, p, i, g)}
        ret3 == mism = {} /\ (ndims > 1 \/ ExtAt(S, p, 2, g) = 1)
        early == enter /\ (ret1 \/ ret2 \/ ret3)
        \* the entries of _size the three tests read
        lastRead == IF mism = {} THEN ndims ELSE Min(mism)
        f1 == I.dims = 1 /\ ndims = 1 /\ ~ExtOk(S, p, 1)
        f3 == ~ret1 /\ ~ret2
              /\ ((\E i \in 1..lastRead : ~ExtOk(S, p, i))
                  \/ (mism = {} /\ ndims <= 1 /\ ~ExtOk(S, p, 2)))
        fEarly == enter /\ (f1 \/ f3)
        \* this->dims = ndims; this->_size = new size_t[ndims];
        a == Len(S.ext) + 1
        S1 == [S EXCEPT !.img[h].dims = ndims, !.img[h]._size = a,
                        !.ext = Append(@, [i \in 1..ndims |-> g[i]])]
        \* this->size = total();
        sz == total(S1, h, g)
        \* for (...) this->_size[i] = sizes[i];
        S2 == [S1 EXCEPT !.img[h].size = sz,
                         !.ext[a] = [i \in 1..ndims |-> sizes[i]],
                         !.fault = S.fault \/ fEarly \/ totalFault(S1, h)]
        \* if (total() > 0) { allocated = new T[total()]; aligned = data = allocated; }
        n == total(S2, h, g)
        b == Len(S.mem) + 1
        S3 == IF n > 0
              THEN [S2 EXCEPT !.mem = Append(@, [k \in 1..n |-> Indet]),
                              !.img[h].allocated = b,
                              !.img[h].aligned = b,
                              !.img[h].data = b]
              ELSE S2
    IN  IF early THEN [S EXCEPT !.fault = S.fault \/ fEarly] ELSE S3

\* Img::create(int rows, int cols, int type).
create_rows_cols(S, h, rows, cols, g) ==
    LET S1 == [S EXCEPT !.img[h].cols = cols, !.img[h].rows = rows]
    IN  create_ndims_sizes(S1, h, 2, <<rows, cols>>, g)

\* Img::Img(int _rows, int _cols, int type): the body passes the members
\* rows and cols, which the initialiser list has just set, not the parameters.
Img_rows_cols(S, t, _rows, _cols, u, g) ==
    LET S1 == [S EXCEPT !.img[t] = ImgInit(0, 0, 0, 0, u)]
    IN  create_rows_cols(S1, t, S1.img[t].rows, S1.img[t].cols, g)

\* Img::Img(int ndims, const int *sizes, int type).
Img_ndims_sizes(S, t, ndims, sizes, u, g) ==
    LET S1 == [S EXCEPT !.img[t] = ImgInit(0, 0, 0, 0, u)]
    IN  create_ndims_sizes(S1, t, ndims, sizes, g)

\* Img::Img(const Img &m).
Img_copy(S, t, m, u, g) ==
    LET M == S.img[m]
        S0 == [S EXCEPT !.img[t] = ImgInit(M.flags, M.dims, M.rows, M.cols, u)]
        \* this->_size = new size_t[m.dims];
        \* for (int i = 0; i < N; i++) this->_size[i] = m._size[i];
        a == Len(S.ext) + 1
        arr == [i \in 1..M.dims |->
                  IF i <= N THEN ExtAt(S, M._size, i, g) ELSE g[i]]
        fE == \E i \in 1..N : ~ExtOk(S, M._size, i) \/ i > M.dims
        S1 == [S0 EXCEPT !.img[t]._size = a, !.ext = Append(@, arr)]
        \* this->size = total(); this->allocated = new T[this->size];
        sz == total(S1, t, g)
        b == Len(S.mem) + 1
        \* for (size_t i = 0; i < this->size; i++) aligned[i] = m.aligned[i];
        buf == [k \in 1..sz |-> MemAt(S, M.aligned, k)]
        fM == \E k \in 1..sz : ~MemOk(S, M.aligned, k)
        S2 == [S1 EXCEPT !.img[t].size = sz,
                         !.img[t].allocated = b,
                         !.img[t].aligned = b,
                         !.img[t].data = b,
                         !.mem = Append(@, buf),
                         !.fault = S.fault \/ fE \/ totalFault(S1, t) \/ fM]
    IN  IF M._size = Null THEN S0 ELSE S2

\* operator= without its test for self-assignment.
IsSelfNever(t, m) == FALSE

\* The test `this == &m` of Img::operator=.
IsSelf(t, m) == t = m

\* Img &Img::operator=(const Img &m).
operator_assign(S, t, m, g) ==
    LET M == S.img[m]
        I == S.img[t]
        S1 == IF I.dims <= 2 /\ M.dims <= 2
              THEN LET Sa == [S EXCEPT !.img[t].flags = M.flags,
                                       !.img[t].dims = M.dims,
                                       !.img[t].rows = M.rows,
                                       !.img[t].cols = M.cols,
                                       !.img[t]._size = M._size]
                   IN  [Sa EXCEPT !.img[t].size = total(Sa, t, g),
                                  !.fault = S.fault \/ totalFault(Sa, t)]
              ELSE [S EXCEPT !.img[t].flags = M.flags]
        \* T *ptr = new T[this->size]; ptr[i] = m.aligned[i];
        sz == S1.img[t].size
        b == Len(S.mem) + 1
        buf == [k \in 1..sz |-> MemAt(S, M.aligned, k)]
        fM == \E k \in 1..sz : ~MemOk(S, M.aligned, k)
        S2 == [S1 EXCEPT !.mem = Append(@, buf),
                         !.img[t].allocated = b,
                         !.img[t].aligned = b,
                         !.img[t].data = b,
                         !.fault = S1.fault \/ fM]
    IN  IF IsSelf(t, m) THEN S ELSE S2

\* data[i] = v, the store the callers do through the public member `data`.
store(S, h, i, v) ==
    LET p == S.img[h].data IN
    IF MemOk(S, p, i + 1)
    THEN [S EXCEPT !.mem[p][i + 1] = v]
    ELSE [S EXCEPT !.fault = TRUE]

\* The pixel the fill loop stores at linear index k.
Pixel(k) == k + 1

RECURSIVE fill(_, _, _)
\* for (k = 0; k < n; k++) data[k] = pixel k : the loop that fills an image.
fill(S, h, n) ==
    IF n = 0 THEN S ELSE store(fill(S, h, n - 1), h, n - 1, Pixel(n - 1))

\* MemRef<T, N>::~MemRef(): releases `allocated` when the handle owns storage.
MemRefDestroy(S, h) == [S EXCEPT !.img[h] = NoObject("dead")]
Released(S, h) ==
    IF S.img[h].allocated = Null THEN {} ELSE {S.img[h].allocated}

Init ==
    /\ img = [h \in Handles |-> NoObject("none")]
    /\ ext = << >>
    /\ mem = << >>
    /\ freed = {}
    /\ fault = FALSE
    /\ lastOp = [op |-> "init", t |-> "a", m |-> "a"]
    /\ ret = "void"
    /\ nOps = 0

\* An array no handle points to any more is out of the program's reach: its
\* address stays taken, its content can no longer be observed and is dropped.
Reach(S, fs) == {S.img[h][f] : h \in Handles, f \in fs}
Trim(S, heap, fs) ==
    [p \in 1..Len(heap) |-> IF p \in Reach(S, fs) THEN heap[p] ELSE << >>]
ExtPtrs == {"_size"}
MemPtrs == {"allocated", "aligned", "data"}

\* The state after an operation: S is the program state it produced, r what
\* it returned; op, t and m record the call.
Apply(S, op, t, m, r) ==
    /\ img' = S.img
    /\ ext' = Trim(S, S.ext, ExtPtrs)
    /\ mem' = Trim(S, S.mem, MemPtrs)
    /\ fault' = S.fault
    /\ lastOp' = [op |-> op, t |-> t, m |-> m]
    /\ ret' = r
    /\ nOps' = nOps + 1
    /\ UNCHANGED freed

\* The handle h holds an object and the run may still perform an operation.
Live(h) == nOps < MaxOps /\ img[h].st = "live"
\* The slot t holds no object yet and the run may still perform an operation.
\* Objects are constructed in the order of the slots' names.
Fresh(t) ==
    /\ nOps < MaxOps
    /\ img[t].st = "none"
    /\ \A h \in Handles : h = t \/ img[h].st # "none" \/ t = "a"

\* Img<float, 2> t;
DefaultConstruct(t) ==
    /\ Fresh(t)
    /\ \E u \in Uninit : Apply(Img_default(Cur, t, u), "Img", t, t, "void")

\* Img<float, 2> t(r, c, type);
ConstructRowsColsOf(t, r, c) ==
    /\ Fresh(t)
    /\ \E u \in Uninit, g \in Words :
          Apply(Img_rows_cols(Cur, t, r, c, u, g), "Img_rows_cols", t, t, "void")
ConstructRowsCols(t) ==
    \E r \in Extents, c \in Extents : ConstructRowsColsOf(t, r, c)

\* Img<float, 2> t(ndims, sizes, type);
ConstructNDimsSizes(t) ==
    /\ Fresh(t)
    /\ \E sizes \in Shapes, u \in Uninit, g \in Words :
          Apply(Img_ndims_sizes(Cur, t, Len(sizes), sizes, u, g),
                "Img_ndims_sizes", t, t, "void")

\* Img<float, 2> t(m);
CopyConstruct(t, m) ==
    /\ Fresh(t) /\ Live(m)
    /\ \E u \in Uninit, g \in Words :
          Apply(Img_copy(Cur, t, m, u, g), "Img_copy", t, m, "void")

\* Img<float, 2> t(std::move(m)); Img declares a copy constructor and no move
\* constructor, so the rvalue binds to Img(const Img &).
MoveConstruct(t, m) ==
    /\ Fresh(t) /\ Live(m)
    /\ \E u \in Uninit, g \in Words :
          Apply(Img_copy(Cur, t, m, u, g), "Img_move", t, m, "void")

\* t.create(r, c, type);
CreateRowsColsOf(t, r, c) ==
    /\ Live(t)
    /\ \E g \in Words :
          Apply(create_rows_cols(Cur, t, r, c, g), "create_rows_cols", t, t, "void")
CreateRowsCols(t) ==
    \E r \in Extents, c \in Extents : CreateRowsColsOf(t, r, c)

\* t.create(ndims, sizes, type);
CreateNDimsSizes(t) ==
    /\ Live(t)
    /\ \E sizes \in Shapes, g \in Words :
          Apply(create_ndims_sizes(Cur, t, Len(sizes), sizes, g),
                "create_ndims_sizes", t, t, "void")

\* t = m;  (t and m may be the same handle)
CopyAssign(t, m) ==
    /\ Live(t) /\ Live(m)
    /\ \E g \in Words :
          Apply(operator_assign(Cur, t, m, g), "assign", t, m, t)

\* t = std::move(m); Img declares a copy assignment and no move assignment,
\* so the rvalue binds to operator=(const Img &).
MoveAssign(t, m) ==
    /\ Live(t) /\ Live(m)
    /\ \E g \in Words :
          Apply(operator_assign(Cur, t, m, g), "move_assign", t, m, t)

\* t.channels();
Channels(t) ==
    /\ Live(t)
    /\ Apply(Cur, "channels", t, t, channels(Cur, t))

\* The loop that writes total() pixels through t.data.
Fill(t) ==
    /\ Live(t)
    /\ ~totalFault(Cur, t)
    /\ \E g \in Words :
          Apply(fill(Cur, t, total(Cur, t, g)), "fill", t, t, "void")

\* t.data[i] = v for the last linear index i of the image.
Write(t) ==
    /\ Live(t)
    /\ ~totalFault(Cur, t)
    /\ \E g \in Words, v \in Marks :
          /\ total(Cur, t, g) > 0
          /\ Apply(store(Cur, t, total(Cur, t, g) - 1, v),
                   "write", t, t, "void")

\* t goes out of scope: Img has no destructor of its own, the base's runs.
Destroy(t) ==
    /\ Live(t)
    /\ img' = MemRefDestroy(Cur, t).img
    /\ ext' = Trim(MemRefDestroy(Cur, t), ext, ExtPtrs)
    /\ mem' = Trim(MemRefDestroy(Cur, t), mem, MemPtrs)
    /\ freed' = freed \cup Released(Cur, t)
    /\ fault' = (Released(Cur, t) \cap freed # {})
    /\ lastOp' = [op |-> "destroy", t |-> t, m |-> t]
    /\ ret' = "void"
    /\ nOps' = nOps + 1

Next ==
    \/ \E t \in Handles : DefaultConstruct(t)
    \/ \E t \in Handles : ConstructRowsCols(t)
    \/ \E t \in Handles : ConstructNDimsSizes(t)
    \/ \E t \in Handles, m \in Handles : CopyConstruct(t, m)
    \/ \E t \in Handles, m \in Handles : MoveConstruct(t, m)
    \/ \E t \in Handles : CreateRowsCols(t)
    \/ \E t \in Handles : CreateNDimsSizes(t)
    \/ \E t \in Handles, m \in Handles : CopyAssign(t, m)
    \/ \E t \in Handles, m \in Handles : MoveAssign(t, m)
    \/ \E t \in Handles : Channels(t)
    \/ \E t \in Handles : Fill(t)
    \/ \E t \in Handles : Write(t)
    \/ \E t \in Handles : Destroy(t)

Spec == Init /\ [][Next]_vars
(* ---------------------------------------------------------------- claims *)

IsLive(h) == img[h].st = "live"
\* The array of extents the handle's _size points to, empty when it points to none.
SizeArr(h) == IF img[h]._size \in 1..Len(ext) THEN ext[img[h]._size] ELSE << >>
\* The elements reachable through the pointer p, none when it points to no array.
Elems(p) == IF p \in 1..Len(mem) THEN mem[p] ELSE << >>
\* The handle has been given a shape: its _size holds dims extents.
Shaped(h) == IsLive(h) /\ img[h].dims > 0 /\ Len(SizeArr(h)) >= img[h].dims
\* The handle describes an r x c image held in r * c elements.
IsImage(h, r, c) ==
    /\ img[h].rows = r /\ img[h].cols = c
    /\ SizeArr(h) = <<r, c>>
    /\ img[h].size = r * c
    /\ r * c > 0 =>
          /\ img[h].allocated # Null
          /\ img[h].aligned = img[h].allocated
          /\ img[h].data = img[h].allocated
          /\ Len(Elems(img[h].data)) = r * c
\* The channel dimension of a handle of more than 2 dimensions: the innermost.
ChannelDim(h) == img[h].dims

\* C1: in every reachable state each handle's element count `size` equals the
\* product of its stored extents _size[0..dims-1], and 0 when it has none.
C1_SizeIsProductOfExtents ==
    \A h \in Handles :
        IsLive(h) =>
            img[h].size = (IF Shaped(h) THEN Prod(SizeArr(h), img[h].dims) ELSE 0)

\* C2: after create(r, c, type) on any handle, fresh or already shaped, the
\* handle describes an r x c image: rows, cols, _size, the element count and
\* the buffer behind allocated/aligned/data all agree with r and c.
C2_CreateDescribesImage ==
    [][\A t \in Handles, r \in Extents, c \in Extents :
          CreateRowsColsOf(t, r, c) => IsImage(t, r, c)']_vars

\* C3: copy construction is a deep copy of every source: same dims, same
\* extents, same element values, storage and extents array distinct from the
\* source's, and every index it reads or writes inside the arrays it touches.
C3_CopyConstructIsDeepCopy ==
    lastOp.op = "Img_copy" =>
        LET t == lastOp.t
            m == lastOp.m
        IN  /\ ~fault
            /\ img[t].dims = img[m].dims
            /\ \A i \in 1..img[m].dims :
                  /\ i <= Len(SizeArr(t)) /\ i <= Len(SizeArr(m))
                  /\ SizeArr(t)[i] = SizeArr(m)[i]
            /\ img[t].size = img[m].size
            /\ Elems(img[t].aligned) = Elems(img[m].aligned)
            /\ img[t].allocated # Null => img[t].allocated # img[m].allocated
            /\ img[t]._size \in 1..Len(ext) => img[t]._size # img[m]._size

C5_CopyAssignIsDeepCopy ==
    (lastOp.op = "assign" /\ lastOp.t # lastOp.m) =>
        LET t == lastOp.t
            m == lastOp.m
        IN  /\ ~fault
            /\ img[t].dims = img[m].dims
            /\ img[t].rows = img[m].rows
            /\ img[t].cols = img[m].cols
            /\ SizeArr(t) = SizeArr(m)
            /\ img[t].size = img[m].size
            /\ Len(Elems(img[t].aligned)) = img[m].size
            /\ Elems(img[t].aligned) = Elems(img[m].aligned)
            /\ img[t].allocated # img[m].allocated
            /\ img[t]._size \in 1..Len(ext) => img[t]._size # img[m]._size

\* C6: Img(rows, cols, type) yields a handle whose extents are (rows, cols)
\* and whose element count is rows * cols, with exactly rows * cols elements
\* allocated when that is positive and no storage when it is zero.
C6_ConstructRowsColsShapesHandle ==
    [][\A t \in Handles, r \in Extents, c \in Extents :
          ConstructRowsColsOf(t, r, c) =>
              (IsImage(t, r, c) /\ (r * c = 0 => img[t].allocated = Null))']_vars

\* C7: the strides a shaped handle reports through its buffer-descriptor base
\* are row-major: strides[Rank-1] = 1, strides[i] = strides[i+1] * sizes[i+1].
C7_StridesAreRowMajor ==
    \A h \in Handles :
        Shaped(h) =>
            /\ img[h].strides[N] = 1
            /\ \A i \in 1..(N - 1) :
                  img[h].strides[i] = img[h].strides[i + 1] * img[h].sizes[i + 1]

\* C8: allocation and release are paired: no element buffer is unreachable
\* while unreleased (a handle's `allocated` is released before it is
\* replaced), and no buffer is released twice.
C8_NoBufferLeaksOrDoubleFree ==
    /\ \A p \in 1..Len(mem) :
          p \in freed \/ \E h \in Handles : IsLive(h) /\ img[h].allocated = p
    /\ lastOp.op = "destroy" => ~fault

\* C9: self-assignment, a = a and a = std::move(a), returns a itself and
\* changes no field, no pointer and no element, allocating and releasing
\* nothing.
C9_SelfAssignIsNoOp ==
    [][(lastOp'.op \in {"assign", "move_assign"} /\ lastOp'.t = lastOp'.m
          /\ nOps' # nOps) =>
            /\ img' = img
            /\ ext' = ext
            /\ mem' = mem
            /\ freed' = freed
            /\ ~fault'
            /\ ret' = lastOp'.t]_vars

\* A handle holding a written image has been assigned to itself.
C9_Witness ==
    /\ lastOp.op \in {"assign", "move_assign"}
    /\ lastOp.t = lastOp.m
    /\ img[lastOp.t].allocated # Null
    /\ img[lastOp.t].size > 0
    /\ \E k \in 1..Len(Elems(img[lastOp.t].aligned)) :
          Elems(img[lastOp.t].aligned)[k] = Pixel(k - 1)

\* C10: channels() returns 1 for a handle of at most 2 dimensions and the
\* extent of the channel dimension for a handle of more dimensions.
C10_ChannelsIsChannelExtent ==
    lastOp.op = "channels" =>
        LET t == lastOp.t IN
        ret = (IF img[t].dims <= 2 THEN 1 ELSE SizeArr(t)[ChannelDim(t)])

\* total() and the fill loop read _size inside the array it points to.
TotalReadsInBounds == \A h \in Handles : IsLive(h) => ~totalFault(Cur, h)

TypeOK ==
    /\ nOps \in 0..MaxOps
    /\ fault \in BOOLEAN
    /\ freed \subseteq 1..Len(mem)
    /\ \A h \in Handles :
          /\ img[h].st \in {"none", "live", "dead"}
          /\ img[h].dims \in {0} \cup NDims
          /\ img[h]._size \in {Null, Wild} \cup 1..Len(ext)
          /\ img[h].allocated \in {Null} \cup 1..Len(mem)
          /\ img[h].aligned = img[h].allocated
          /\ img[h].data \in {Null, Wild} \cup 1..Len(mem)
====
